---- MODULE Spec2Model ----
(***************************************************************************)
(* Model of the Spotify pitch shifter extension.                           *)
(*                                                                         *)
(*   Page Agent  public/inject.js      rate arbitration, element registry, *)
(*                                     command listener                    *)
(*   Bridge      src/content/content.ts  cross-realm calls (sendPageCommand)*)
(*                                                                         *)
(* Rates are modelled as the integers 0..MaxSpeed (1 is the native default *)
(* 1.0); strings that the code inspects (tag names, class names) are       *)
(* sequences of one-character strings.                                     *)
(***************************************************************************)
EXTENDS Integers, Sequences, FiniteSets, TLC

\* ------------------------------------------------------------------ bounds
MaxEls == 2
MaxSpeed == 2
MaxCalls == 2
MaxInits == 2

Elements == 1..MaxEls
Speeds == -1..MaxSpeed
CallIds == 1..MaxCalls
InitIds == 1..MaxInits

\* slots of the calls in flight: one per one-shot call, then one per init()
\* invocation (an invocation awaits its calls one after the other)
Slots == 1..(MaxCalls + MaxInits)
initSlot(i) == MaxCalls + i

\* ----------------------------------------------------------------- strings
UpperCase ==
  <<"A","B","C","D","E","F","G","H","I","J","K","L","M",
    "N","O","P","Q","R","S","T","U","V","W","X","Y","Z">>

LowerCase ==
  <<"a","b","c","d","e","f","g","h","i","j","k","l","m",
    "n","o","p","q","r","s","t","u","v","w","x","y","z">>

\* String.prototype.toLowerCase, one character
toLowerChar(c) ==
  IF \E i \in 1..Len(UpperCase) : UpperCase[i] = c
    THEN LowerCase[CHOOSE i \in 1..Len(UpperCase) : UpperCase[i] = c]
    ELSE c

\* String.prototype.toLowerCase
toLowerCase(s) == [i \in 1..Len(s) |-> toLowerChar(s[i])]

\* String.prototype.includes
includes(s, needle) ==
  \E i \in 0..(Len(s) - Len(needle)) :
    \A j \in 1..Len(needle) : s[i + j] = needle[j]

StrCanvas == <<"c","a","n","v","a","s">>
StrVideo == <<"v","i","d","e","o">>
StrAudio == <<"a","u","d","i","o">>

\* tag names handed to document.createElement
Tags ==
  { <<"v","i","d","e","o">>,
    <<"A","U","D","I","O">>,
    <<"V","i","d","e","o">>,
    <<"d","i","v">> }

\* class names of the containers the host page puts media elements in
ClassNames ==
  { <<"c","a","n","v","a","-","x">>,
    <<"a","d","-","C","a","n","V","A","S","-","x">> }

NoParent == <<"#","n","o","n","e">>

\* ------------------------------------------------------------------- state
VARIABLES
  installed,              \* the Page Agent's script has run in the page realm
  created,                \* number of elements the page has created (ids 1..created)
  kind,                   \* element -> "none" | "media" | "other"
  spotifyPlaybackEls,     \* the registry: sequence of element ids
  currentSpeed,           \* agent: remembered speed
  currentPreservesPitch,  \* agent: remembered preserve-pitch setting
  playbackRate,           \* element -> value held by the native playbackRate
  preservesPitch,         \* element -> native preservesPitch flag
  parentClass,            \* element -> className of parentElement, or NoParent
  domMedia,               \* media elements in the document that are not in the
                          \* registry, in document order (the only ones the
                          \* agent ever looks up in the document)
  paused,                 \* element -> native paused flag
  readyState,             \* element -> native readyState 0..4
  pendingApply,           \* elements whose setTimeout(..., 0) callback has not run yet
  dispatched,             \* response events dispatched by the last command event
  calls,                  \* Bridge: call id -> state of one sendPageCommand call
  last,                   \* history: the step taken last
  manipulator,            \* Bridge: fields of the SpotifyAudioManipulator singleton
  inits,                  \* Bridge: init() invocation -> its position and counters
  contentAlive,           \* the content script can still be reached by messages
  popup,                  \* Controller: isConnected and status of the popup
  storage,                \* chrome.storage.local: pitch and speed
  reqs,                   \* Controller: sendMessage invocation -> its position
  ports,                  \* the answer to the latest message that an extension page other
                          \* than the popup sent to the content script / the background
  everCanvas,             \* history, kept by hostAppendChildTracked: the elements
                          \* that have at some time had a parent on which the
                          \* setter's canvas test succeeds
  ctl                     \* Controller: the initializeExtension run of the popup

agentVars ==
  <<installed, created, kind, spotifyPlaybackEls, currentSpeed,
    currentPreservesPitch, playbackRate, preservesPitch, parentClass,
    domMedia, paused, readyState, pendingApply, dispatched>>

outerVars ==
  <<manipulator, inits, contentAlive, popup, storage, reqs, ports, everCanvas,
    ctl>>

vars == <<agentVars, calls, last, outerVars>>

\* ----------------------------------------------------------------- helpers
SourceTag == "spotify-pitch-shifter"

\* { source: 'spotify-pitch-shifter', value: v }
Tagged(v) == [source |-> SourceTag, value |-> v]

\* a bare number written by the host page
Bare(x) == [number |-> x]

B2N(b) == IF b THEN 1 ELSE 0

SeqToSet(s) == { s[i] : i \in 1..Len(s) }

\* what a timed-out call resolves to
NullPayload == [null |-> TRUE]

\* one sendPageCommand call: the promise (status, payload), its response
\* listener and its timer; `from` and `heard` are bookkeeping: the call whose
\* command produced the payload, and whether a response event was dispatched
\* on the document between the call's start and its timer firing
NoCall == [status |-> "unused", cmd |-> "none",
           listener |-> FALSE, timer |-> FALSE,
           payload |-> NullPayload, from |-> 0, heard |-> FALSE,
           reached |-> FALSE, answers |-> 0]

\* no answer (yet) to a message
NoReply == [none |-> TRUE]

\* one init() invocation: where it stands, the loop counter of the loop it is
\* in, and what it answered; the remaining fields are bookkeeping: the return
\* statement it ended at, whether the readiness loop used up its attempts, the
\* answers to the final readiness check and to the latest element check,
\* what the page realm looked like when the invocation started, and (kept by
\* initSendCounted only) how many commands of either kind it has sent
NoInit == [pc |-> "idle", attempts |-> 0, reply |-> NoReply,
           readySent |-> 0, elemSent |-> 0,
           end |-> "none", exhausted |-> FALSE,
           finalAnswer |-> NullPayload, elemAnswer |-> NullPayload,
           startInstalled |-> FALSE, startElement |-> FALSE]

\* the initializeExtension run: where it stands, its loop counter, and as
\* bookkeeping the number of 'init' messages sent and whether one of them
\* was answered with success
NoCtl == [pc |-> "idle", attempts |-> 0, sent |-> 0, succeeded |-> FALSE]

\* one sendMessage invocation of the popup
NoReq == [pc |-> "idle", action |-> "none", value |-> 0, reply |-> NoReply,
          call |-> 0]

\* history bookkeeping: the step taken, and the command (if any) processed
\* by the step before it
NoTag == << >>

\* the same for a call of document.createElement, with the tag name it was
\* handed
NoteTag(op, el, arg, tagName) ==
  last' = [op |-> op, el |-> el, arg |-> arg, tag |-> tagName,
           before |-> IF last.op \in {"setSpeed", "setPreservesPitch"}
                        THEN <<last.op, last.arg>>
                        ELSE <<"other", 0>>]

Note(op, el, arg) == NoteTag(op, el, arg, NoTag)

\* ------------------------------------------------------- rate arbitration
\* parentElement && parentElement.className.toLowerCase().includes('canvas')
\* variant: the class name is searched without lower-casing it first
classNameHasCanvas_caseSensitive ==
  [cls \in ClassNames |-> includes(cls, StrCanvas)]

classNameHasCanvas ==
  [cls \in ClassNames |-> includes(toLowerCase(cls), StrCanvas)]

isCanvas(e) ==
  /\ parentClass[e] # NoParent
  /\ classNameHasCanvas[parentClass[e]]

\* value && typeof value === 'object' && value.source === 'spotify-pitch-shifter'
isOurs(value) ==
  /\ "source" \in DOMAIN value
  /\ value.source = SourceTag

\* variant: a foreign value is passed through to the native setter
playbackRateSet_hostWins(e, value, cs) ==
  IF isCanvas(e) THEN 1
  ELSE IF isOurs(value) THEN value.value
  ELSE value.number

\* variant: a foreign value is answered with the native default rate
playbackRateSet_resetToDefault(e, value, cs) ==
  IF isCanvas(e) THEN 1
  ELSE IF isOurs(value) THEN value.value
  ELSE 1

\* The overridden playbackRate setter: the value the native setter receives
\* when `value` is written to element e while the agent remembers speed cs.
playbackRateSet(e, value, cs) ==
  IF isCanvas(e) THEN 1
  ELSE IF isOurs(value) THEN value.value
  ELSE cs

\* a write to e.playbackRate; before the agent is installed the native
\* setter is in place
writeRate(e, value, cs) ==
  IF installed THEN playbackRateSet(e, value, cs) ELSE value.number

\* ------------------------------------------------------------------- Init
InitExceptStorage ==
  /\ created = 0
  /\ kind = [e \in Elements |-> "none"]
  /\ spotifyPlaybackEls = <<>>
  /\ currentSpeed = 1
  /\ currentPreservesPitch = TRUE
  /\ playbackRate = [e \in Elements |-> 1]
  /\ preservesPitch = [e \in Elements |-> TRUE]
  /\ parentClass = [e \in Elements |-> NoParent]
  /\ domMedia = <<>>
  /\ paused = [e \in Elements |-> TRUE]
  /\ readyState = [e \in Elements |-> 0]
  /\ pendingApply = {}
  /\ dispatched = <<>>
  /\ calls = [c \in Slots |-> NoCall]
  /\ last = [op |-> "init", el |-> 0, arg |-> 0, tag |-> NoTag,
             before |-> <<"other", 0>>]
  /\ manipulator = [currentPitch |-> 0, currentSpeed |-> 1,
                    currentPreservesPitch |-> TRUE]
  /\ inits = [i \in InitIds |-> NoInit]
  /\ contentAlive = TRUE
  /\ popup = [isConnected |-> FALSE, status |-> "Initializing..."]
  /\ reqs = [r \in CallIds |-> NoReq]
  /\ ports = [content |-> NoReply, background |-> NoReply]
  /\ everCanvas = {}
  /\ ctl = NoCtl

\* a fresh install: storage holds the defaults written by onInstalled
InitAgentState ==
  /\ InitExceptStorage
  /\ storage = [pitch |-> 0, speed |-> 1]

\* the page realm right after inject.js has run
Init ==
  /\ installed = TRUE
  /\ InitAgentState

\* ------------------------------------------------------- element creation
\* variant: the tag name is compared as it was handed in
isMediaTag_caseSensitive(tagName) ==
  \/ tagName = StrVideo
  \/ tagName = StrAudio

\* tagName.toLowerCase() === 'video' || tagName.toLowerCase() === 'audio'
isMediaTag(tagName) ==
  \/ toLowerCase(tagName) = StrVideo
  \/ toLowerCase(tagName) = StrAudio

\* variant: the settings are written inside createElement, not deferred
createElement_eager(tagName) ==
  /\ installed
  /\ created < MaxEls
  /\ LET element == created + 1 IN
       /\ created' = element
       /\ IF isMediaTag(tagName)
            THEN /\ kind' = [kind EXCEPT ![element] = "media"]
                 /\ spotifyPlaybackEls' = Append(spotifyPlaybackEls, element)
                 /\ playbackRate' = [playbackRate EXCEPT ![element] = currentSpeed]
                 /\ preservesPitch' =
                      [preservesPitch EXCEPT ![element] = currentPreservesPitch]
            ELSE /\ kind' = [kind EXCEPT ![element] = "other"]
                 /\ UNCHANGED <<spotifyPlaybackEls, playbackRate, preservesPitch>>
       /\ NoteTag("createElement", element, B2N(isMediaTag(tagName)), tagName)
  /\ UNCHANGED <<installed, currentSpeed, currentPreservesPitch, pendingApply,
                 parentClass, domMedia, paused, readyState,
                 dispatched, calls, outerVars>>

\* document.createElement(tagName) through the wrapper
createElement(tagName) ==
  /\ installed
  /\ created < MaxEls
  /\ LET element == created + 1 IN
       /\ created' = element
       /\ IF isMediaTag(tagName)
            THEN /\ kind' = [kind EXCEPT ![element] = "media"]
                 /\ spotifyPlaybackEls' = Append(spotifyPlaybackEls, element)
                 /\ pendingApply' = pendingApply \cup {element}
            ELSE /\ kind' = [kind EXCEPT ![element] = "other"]
                 /\ UNCHANGED <<spotifyPlaybackEls, pendingApply>>
       /\ NoteTag("createElement", element, B2N(isMediaTag(tagName)), tagName)
  /\ UNCHANGED <<installed, currentSpeed, currentPreservesPitch, playbackRate,
                 preservesPitch, parentClass, domMedia, paused, readyState,
                 dispatched, calls, outerVars>>

\* the setTimeout(function() {...}, 0) callback of createElement
applySettings(element) ==
  /\ element \in pendingApply
  /\ pendingApply' = pendingApply \ {element}
  /\ playbackRate' = [playbackRate EXCEPT
       ![element] = writeRate(element, Tagged(currentSpeed), currentSpeed)]
  /\ preservesPitch' = [preservesPitch EXCEPT ![element] = currentPreservesPitch]
  /\ Note("applySettings", element, 0)
  /\ UNCHANGED <<installed, created, kind, spotifyPlaybackEls, currentSpeed,
                 currentPreservesPitch, parentClass, domMedia, paused,
                 readyState, dispatched, calls, outerVars>>

\* ------------------------------------------------------------ host page
\* variant: the number the host writes becomes the remembered speed
hostWriteRate_adopts(e, x) ==
  /\ e <= created
  /\ kind[e] = "media"
  /\ currentSpeed' = x
  /\ playbackRate' = [playbackRate EXCEPT ![e] = x]
  /\ Note("hostWrite", e, x)
  /\ UNCHANGED <<installed, created, kind, spotifyPlaybackEls,
                 currentPreservesPitch, preservesPitch, parentClass, domMedia,
                 paused, readyState, pendingApply, dispatched, calls, outerVars>>

\* the host page writes the bare number x to e.playbackRate
hostWriteRate(e, x) ==
  /\ e <= created
  /\ kind[e] = "media"
  /\ playbackRate' = [playbackRate EXCEPT ![e] = writeRate(e, Bare(x), currentSpeed)]
  /\ Note("hostWrite", e, x)
  /\ UNCHANGED <<installed, created, kind, spotifyPlaybackEls, currentSpeed,
                 currentPreservesPitch, preservesPitch, parentClass, domMedia,
                 paused, readyState, pendingApply, dispatched, calls, outerVars>>

\* a script of the page writes { source: 'spotify-pitch-shifter', value: x }
\* to e.playbackRate
taggedWrite(e, x) ==
  /\ e <= created
  /\ kind[e] = "media"
  /\ playbackRate' = [playbackRate EXCEPT ![e] = writeRate(e, Tagged(x), currentSpeed)]
  /\ Note("taggedWrite", e, x)
  /\ UNCHANGED <<installed, created, kind, spotifyPlaybackEls, currentSpeed,
                 currentPreservesPitch, preservesPitch, parentClass, domMedia,
                 paused, readyState, pendingApply, dispatched, calls, outerVars>>

\* the host page writes b to e.preservesPitch (the native property; the agent
\* installs no override for it)
hostWritePitch(e, b) ==
  /\ e <= created
  /\ kind[e] = "media"
  /\ preservesPitch' = [preservesPitch EXCEPT ![e] = b]
  /\ Note("hostWritePitch", e, B2N(b))
  /\ UNCHANGED <<installed, created, kind, spotifyPlaybackEls, currentSpeed,
                 currentPreservesPitch, playbackRate, parentClass, domMedia,
                 paused, readyState, pendingApply, dispatched, calls, outerVars>>

\* the host page appends e to a container of the document whose className
\* is cls: what it changes in the page
appendChildEffect(e, cls) ==
  /\ e <= created
  /\ kind[e] = "media"
  /\ parentClass[e] # cls
  /\ parentClass' = [parentClass EXCEPT ![e] = cls]
  /\ domMedia' = IF e \in SeqToSet(domMedia)
                    THEN Append(SelectSeq(domMedia, LAMBDA x : x # e), e)
                    ELSE domMedia
  /\ Note("appendChild", e, 0)
  /\ UNCHANGED <<installed, created, kind, spotifyPlaybackEls, currentSpeed,
                 currentPreservesPitch, playbackRate, preservesPitch, paused,
                 readyState, pendingApply, dispatched, calls, manipulator,
                 inits, contentAlive, popup, storage, reqs, ports, ctl>>

hostAppendChild(e, cls) ==
  /\ appendChildEffect(e, cls)
  /\ UNCHANGED everCanvas

\* the same step with the history of canvas containers kept
hostAppendChildTracked(e, cls) ==
  /\ appendChildEffect(e, cls)
  /\ everCanvas' = IF classNameHasCanvas[cls] THEN everCanvas \cup {e}
                                                ELSE everCanvas

\* a media element enters the document without document.createElement
\* (markup parsed by the browser); the DOM fallback of getMediaElement sees it
hostParseMedia(cls) ==
  /\ created < MaxEls
  /\ LET element == created + 1 IN
       /\ created' = element
       /\ kind' = [kind EXCEPT ![element] = "media"]
       /\ parentClass' = [parentClass EXCEPT ![element] = cls]
       /\ domMedia' = Append(domMedia, element)
       /\ Note("parseMedia", element, 0)
  /\ UNCHANGED <<installed, spotifyPlaybackEls, currentSpeed,
                 currentPreservesPitch, playbackRate, preservesPitch, paused,
                 readyState, pendingApply, dispatched, calls, outerVars>>

\* playback of e progresses: the native paused flag and readyState change
hostPlayback(e, p, rs) ==
  /\ e <= created
  /\ kind[e] = "media"
  /\ <<p, rs>> # <<paused[e], readyState[e]>>
  /\ paused' = [paused EXCEPT ![e] = p]
  /\ readyState' = [readyState EXCEPT ![e] = rs]
  /\ Note("playback", e, 0)
  /\ UNCHANGED <<installed, created, kind, spotifyPlaybackEls, currentSpeed,
                 currentPreservesPitch, playbackRate, preservesPitch,
                 parentClass, domMedia, pendingApply, dispatched, calls, outerVars>>

\* ------------------------------------------------- __spotifyPitchShifter
Null == 0

\* variant: the scan requires readyState > 2
RECURSIVE scanPlaying_strict(_)
scanPlaying_strict(i) ==
  IF i < 1 THEN Null
  ELSE LET el == spotifyPlaybackEls[i] IN
         IF ~paused[el] /\ readyState[el] > 2 THEN el
         ELSE scanPlaying_strict(i - 1)

\* the backwards scan of getMediaElement from index i
RECURSIVE scanPlaying(_)
scanPlaying(i) ==
  IF i < 1 THEN Null
  ELSE LET el == spotifyPlaybackEls[i] IN
         IF ~paused[el] /\ readyState[el] >= 2 THEN el
         ELSE scanPlaying(i - 1)

\* variant: the first entry of the query result is taken
lastInDocument_first ==
  IF Len(domMedia) > 0 THEN domMedia[1] ELSE Null

\* document.querySelectorAll('audio, video'), last entry or null
lastInDocument ==
  IF Len(domMedia) > 0 THEN domMedia[Len(domMedia)] ELSE Null

getMediaElement ==
  IF scanPlaying(Len(spotifyPlaybackEls)) # Null
    THEN scanPlaying(Len(spotifyPlaybackEls))
  ELSE IF Len(spotifyPlaybackEls) > 0
    THEN spotifyPlaybackEls[Len(spotifyPlaybackEls)]
  ELSE lastInDocument

\* variant: only the most recently created element is written
ratesAfterSetSpeed_lastOnly(speed) ==
  [e \in Elements |->
     IF Len(spotifyPlaybackEls) > 0 /\ e = spotifyPlaybackEls[Len(spotifyPlaybackEls)]
       THEN playbackRateSet(e, Tagged(speed), speed)
       ELSE playbackRate[e]]

\* setSpeed: the rates after the forEach, with currentSpeed already stored
ratesAfterSetSpeed(speed) ==
  [e \in Elements |->
     IF e \in SeqToSet(spotifyPlaybackEls)
       THEN playbackRateSet(e, Tagged(speed), speed)
       ELSE playbackRate[e]]

\* variant: the elements are written with the speed remembered before the call
setSpeed_stale(speed) ==
  /\ currentSpeed' = speed
  /\ playbackRate' =
       [e \in Elements |->
          IF e \in SeqToSet(spotifyPlaybackEls)
            THEN playbackRateSet(e, Tagged(currentSpeed), currentSpeed)
            ELSE playbackRate[e]]

\* variant: a speed that is not positive is rejected
setSpeed_validated(speed) ==
  IF speed > 0
    THEN /\ currentSpeed' = speed
         /\ playbackRate' =
              [e \in Elements |->
                 IF e \in SeqToSet(spotifyPlaybackEls)
                   THEN playbackRateSet(e, Tagged(speed), speed)
                   ELSE playbackRate[e]]
    ELSE UNCHANGED <<currentSpeed, playbackRate>>

\* variant: the speed is applied but not remembered
setSpeed_noStore(speed) ==
  /\ currentSpeed' = currentSpeed
  /\ playbackRate' = ratesAfterSetSpeed(speed)

setSpeed(speed) ==
  /\ currentSpeed' = speed
  /\ playbackRate' = ratesAfterSetSpeed(speed)

\* variant: only the most recently created element is written
flagsAfterSetPreservesPitch_lastOnly(preserve) ==
  [e \in Elements |->
     IF Len(spotifyPlaybackEls) > 0 /\ e = spotifyPlaybackEls[Len(spotifyPlaybackEls)]
       THEN preserve
       ELSE preservesPitch[e]]

\* setPreservesPitch: the flags after the forEach
flagsAfterSetPreservesPitch(preserve) ==
  [e \in Elements |->
     IF e \in SeqToSet(spotifyPlaybackEls) THEN preserve ELSE preservesPitch[e]]

setPreservesPitch(preserve) ==
  /\ currentPreservesPitch' = preserve
  /\ preservesPitch' = flagsAfterSetPreservesPitch(preserve)

getSettings ==
  [speed |-> currentSpeed,
   preservesPitch |-> currentPreservesPitch,
   elementCount |-> Len(spotifyPlaybackEls)]

\* -------------------------------------------------------- command listener
Commands == {"checkReady", "checkMediaElement", "setSpeed", "setPreservesPitch"}

\* event.detail of a command event: the command and the value that goes with it
Details ==
  [command : {"checkReady", "checkMediaElement"}, num : {0}, flag : {FALSE}]
    \cup [command : {"setSpeed"}, num : Speeds, flag : {FALSE}]
    \cup [command : {"setPreservesPitch"}, num : {0}, flag : BOOLEAN]

\* the response events the listener dispatches for a command event
responsesTo(detail) ==
  IF detail.command = "checkReady" THEN << [ready |-> TRUE] >>
  ELSE IF detail.command = "checkMediaElement"
    THEN << [hasMediaElement |-> getMediaElement # Null] >>
  ELSE IF detail.command = "setSpeed" THEN << [success |-> TRUE] >>
  ELSE IF detail.command = "setPreservesPitch" THEN << [success |-> TRUE] >>
  ELSE << >>

\* the listener for 'spotify-pitch-shifter-command': its effect on the page realm
commandListener(detail) ==
  /\ dispatched' = responsesTo(detail)
  /\ IF detail.command = "setSpeed"
       THEN setSpeed(detail.num) /\ UNCHANGED <<currentPreservesPitch, preservesPitch>>
     ELSE IF detail.command = "setPreservesPitch"
       THEN setPreservesPitch(detail.flag) /\ UNCHANGED <<currentSpeed, playbackRate>>
     ELSE UNCHANGED <<currentSpeed, playbackRate, currentPreservesPitch, preservesPitch>>
  /\ UNCHANGED <<installed, created, kind, spotifyPlaybackEls, parentClass,
                 domMedia, paused, readyState, pendingApply>>

detailArg(detail) ==
  IF detail.command = "setPreservesPitch" THEN B2N(detail.flag) ELSE detail.num

\* a command event dispatched on the document while the agent listens
onCommand(detail) ==
  /\ installed
  /\ commandListener(detail)
  /\ Note(detail.command, 0, detailArg(detail))
  /\ UNCHANGED <<calls, outerVars>>

\* ------------------------------------------------------------------ Bridge
\* the content script has injected the loader element; inject.js has not run yet
InitBridge ==
  /\ installed = FALSE
  /\ InitAgentState

\* inject.js runs in the page realm: overrides and command listener installed
installAgent ==
  /\ ~installed
  /\ installed' = TRUE
  /\ Note("installAgent", 0, 0)
  /\ UNCHANGED <<created, kind, spotifyPlaybackEls, currentSpeed,
                 currentPreservesPitch, playbackRate, preservesPitch,
                 parentClass, domMedia, paused, readyState, pendingApply,
                 dispatched, calls, outerVars>>

\* variant: the handler resolves but stays registered
responseHandler_keepsListener(call, payload, producer) ==
  [call EXCEPT !.status = "resolved",
               !.payload = IF call.status = "pending" THEN payload ELSE @,
               !.from = IF call.status = "pending" THEN producer ELSE @]

\* responseHandler of call k runs for a response event: the listener is
\* removed and the promise resolved with event.detail (a second resolve of a
\* settled promise has no effect)
responseHandler(call, payload, producer) ==
  [call EXCEPT !.listener = FALSE,
               !.status = "resolved",
               !.payload = IF call.status = "pending" THEN payload ELSE @,
               !.from = IF call.status = "pending" THEN producer ELSE @]

\* a response event is dispatched on the document: every registered
\* 'spotify-pitch-shifter-response' listener runs
dispatchResponse(cs, payload, producer) ==
  [k \in DOMAIN cs |->
     LET call == IF cs[k].listener
                   THEN responseHandler(cs[k], payload, producer)
                   ELSE cs[k]
     IN [call EXCEPT !.heard = @ \/ cs[k].timer \/ k = producer,
                     !.answers = IF k = producer THEN @ + 1 ELSE @]]

RECURSIVE dispatchAll(_, _, _)
dispatchAll(cs, payloads, producer) ==
  IF payloads = << >> THEN cs
  ELSE dispatchAll(dispatchResponse(cs, Head(payloads), producer),
                   Tail(payloads), producer)

\* sendPageCommand(command, value), up to and including setTimeout: the
\* listener is added, the command event dispatched (the agent's listener, if
\* installed, runs and answers synchronously), the timer armed
issueCall(c, detail) ==
  /\ LET listening == [calls EXCEPT ![c] =
                         [NoCall EXCEPT !.status = "pending",
                                        !.cmd = detail.command,
                                        !.listener = TRUE,
                                        !.reached = installed]]
         answered == IF installed
                       THEN dispatchAll(listening, responsesTo(detail), c)
                       ELSE listening
     IN calls' = [answered EXCEPT ![c].timer = TRUE]
  /\ IF installed THEN commandListener(detail) ELSE UNCHANGED agentVars

\* a sendPageCommand call on its own; calls are numbered in the order made
sendPageCommand(c, detail) ==
  /\ calls[c].status = "unused"
  /\ \A k \in CallIds : k < c => calls[k].status # "unused"
  /\ issueCall(c, detail)
  /\ Note("sendPageCommand", c, detailArg(detail))
  /\ UNCHANGED outerVars

\* variant: the callback's null replaces an outcome already there
afterTimeout_overwrites(call) ==
  [call EXCEPT !.timer = FALSE,
               !.listener = FALSE,
               !.status = "resolved",
               !.payload = NullPayload]

\* variant: the callback removes the listener but does not resolve
afterTimeout_noResolve(call) ==
  [call EXCEPT !.timer = FALSE,
               !.listener = FALSE]

\* the call's record after its setTimeout callback ran: listener removed,
\* resolve(null)
afterTimeout(call) ==
  [call EXCEPT !.timer = FALSE,
               !.listener = FALSE,
               !.status = "resolved",
               !.payload = IF call.status = "pending" THEN NullPayload ELSE @]

\* the 1000 ms timer of call c fires
timeout(c) ==
  /\ calls[c].timer
  /\ calls' = [calls EXCEPT ![c] = afterTimeout(calls[c])]
  /\ Note("timeout", c, 0)
  /\ UNCHANGED <<agentVars, outerVars>>

\* ------------------------------------------------------------ Bridge init()
MaxReadyAttempts == 50
MaxElementAttempts == 40

\* variant: any response counts as ready
isReadyAnswer_anyResponse(payload) ==
  payload # NullPayload

\* response && response.ready === true
isReadyAnswer(payload) ==
  /\ "ready" \in DOMAIN payload
  /\ payload.ready = TRUE

\* variant: any response counts as a positive element answer
hasElementAnswer_anyResponse(payload) ==
  payload # NullPayload

\* response && response.hasMediaElement
hasElementAnswer(payload) ==
  /\ "hasMediaElement" \in DOMAIN payload
  /\ payload.hasMediaElement

\* an init() invocation at its first statement
started ==
  [NoInit EXCEPT !.pc = "readyLoop",
                 !.startInstalled = installed,
                 !.startElement = (getMediaElement # Null)]

\* the 'init' message reaches the content script: manipulator.init() starts
startInit(i) ==
  /\ contentAlive
  /\ inits[i].pc = "idle"
  /\ inits' = [inits EXCEPT ![i] = started]
  /\ Note("startInit", i, 0)
  /\ UNCHANGED <<agentVars, calls, manipulator, contentAlive, popup, storage,
                 reqs, ports,
                 everCanvas, ctl>>

\* the command init() sends at each of its positions
initCommand(pc) ==
  IF pc \in {"readyLoop", "final"} THEN "checkReady" ELSE "checkMediaElement"

\* the invocation's record once it has called sendPageCommand and awaits it
awaiting(init) ==
  [init EXCEPT
     !.pc = IF init.pc = "readyLoop" THEN "readyWait"
            ELSE IF init.pc = "final" THEN "finalWait"
            ELSE IF init.pc = "elem" THEN "elemWait"
            ELSE "elemLoopWait"]

\* the same with the command counted
awaitingCounted(init) ==
  [awaiting(init) EXCEPT
     !.readySent = IF initCommand(init.pc) = "checkReady" THEN @ + 1 ELSE @,
     !.elemSent = IF initCommand(init.pc) = "checkMediaElement" THEN @ + 1 ELSE @]

\* init() calls sendPageCommand: isPageScriptReady() in the loop and for the
\* final check, 'checkMediaElement' before and inside waitForMediaElement;
\* `next` is the invocation's record afterwards
initSendAs(i, next) ==
  /\ inits[i].pc \in {"readyLoop", "final", "elem", "elemLoop"}
  /\ issueCall(initSlot(i),
               [command |-> initCommand(inits[i].pc), num |-> 0, flag |-> FALSE])
  /\ inits' = [inits EXCEPT ![i] = next]
  /\ Note("initSend", i, 0)
  /\ UNCHANGED <<manipulator, contentAlive, popup, storage, reqs, ports,
                 everCanvas, ctl>>

initSend(i) == initSendAs(i, awaiting(inits[i]))

initSendCounted(i) == initSendAs(i, awaitingCounted(inits[i]))

\* init() returns at the return statement `end`: the message listener answers
\* { success }; the loop counter is a local and is gone
initReturn(init, success, end) ==
  [init EXCEPT !.pc = "done", !.reply = [success |-> success],
               !.end = end, !.attempts = 0]

\* variant: the result of the final readiness check is not looked at
afterFinalCheck_noGuard(init, payload) ==
  [init EXCEPT !.pc = "elem", !.finalAnswer = payload]

\* const finalCheck = await this.isPageScriptReady(); if (!finalCheck) return false
afterFinalCheck(init, payload) ==
  IF isReadyAnswer(payload)
    THEN [init EXCEPT !.pc = "elem", !.finalAnswer = payload]
    ELSE initReturn([init EXCEPT !.finalAnswer = payload], FALSE, "notReady")

\* variant: the loop condition is attempts <= maxAttempts
afterReadyPoll_offByOne(init, payload) ==
  IF isReadyAnswer(payload)
    THEN [init EXCEPT !.pc = "final", !.attempts = 0]
  ELSE IF init.attempts + 1 <= MaxReadyAttempts
    THEN [init EXCEPT !.pc = "readyLoop", !.attempts = @ + 1]
  ELSE [init EXCEPT !.pc = "final", !.attempts = 0, !.exhausted = TRUE]

\* one turn of the readiness loop after its isPageScriptReady() resolved
afterReadyPoll(init, payload) ==
  IF isReadyAnswer(payload)
    THEN [init EXCEPT !.pc = "final", !.attempts = 0]
  ELSE IF init.attempts + 1 < MaxReadyAttempts
    THEN [init EXCEPT !.pc = "readyLoop", !.attempts = @ + 1]
  ELSE [init EXCEPT !.pc = "final", !.attempts = 0, !.exhausted = TRUE]

\* the immediate 'checkMediaElement' of init()
afterElementCheck(init, payload) ==
  IF hasElementAnswer(payload)
    THEN initReturn([init EXCEPT !.elemAnswer = payload], TRUE, "foundImmediately")
    ELSE [init EXCEPT !.pc = "elemLoop", !.attempts = 0, !.elemAnswer = payload]

\* one turn of the loop of waitForMediaElement
afterElementPoll(init, payload) ==
  IF hasElementAnswer(payload)
    THEN initReturn([init EXCEPT !.elemAnswer = payload], TRUE, "foundWaiting")
  ELSE IF init.attempts + 1 < MaxElementAttempts
    THEN [init EXCEPT !.pc = "elemLoop", !.attempts = @ + 1, !.elemAnswer = payload]
  ELSE initReturn([init EXCEPT !.elemAnswer = payload], FALSE, "noElement")

\* the awaited call of init() has resolved (response or timeout); init()
\* continues, sleeps if the loop goes on, and returns when it is decided
initResume(i) ==
  /\ inits[i].pc \in {"readyWait", "finalWait", "elemWait", "elemLoopWait"}
  /\ calls[initSlot(i)].status = "resolved"
  /\ LET payload == calls[initSlot(i)].payload IN
       inits' = [inits EXCEPT ![i] =
         IF inits[i].pc = "readyWait" THEN afterReadyPoll(inits[i], payload)
         ELSE IF inits[i].pc = "finalWait" THEN afterFinalCheck(inits[i], payload)
         ELSE IF inits[i].pc = "elemWait" THEN afterElementCheck(inits[i], payload)
         ELSE afterElementPoll(inits[i], payload)]
  /\ Note("initResume", i, 0)
  /\ UNCHANGED <<agentVars, calls, manipulator, contentAlive, popup, storage,
                 reqs, ports,
                 everCanvas, ctl>>

\* ------------------------------------------------- Bridge message handling
\* the values a slider hands to sendMessage
Values == 0..MaxSpeed

StatusConnected == "Connected to Spotify"
StatusLost == "Connection lost. Refresh Spotify."

UnknownAction == [success |-> FALSE, error |-> "Unknown action"]

\* a command event whose command is none of the four the agent knows
UnknownDetail == [command |-> "unknown", num |-> 0, flag |-> FALSE]

\* variant: setPitch forwards the semitones as a speed
forwardedDetail_pitchAsSpeed(action, value) ==
  [command |-> "setSpeed", num |-> value, flag |-> FALSE]

\* variant: setPitch asks for preserved pitch whatever the semitones
forwardedDetail_alwaysPreserve(action, value) ==
  IF action = "setSpeed"
    THEN [command |-> "setSpeed", num |-> value, flag |-> FALSE]
    ELSE [command |-> "setPreservesPitch", num |-> 0, flag |-> TRUE]

\* the one page command manipulator.setSpeed(value) / manipulator.setPitch(value)
\* sends: setPitch calls setPreservesPitch(semitones === 0)
forwardedDetail(action, value) ==
  IF action = "setSpeed"
    THEN [command |-> "setSpeed", num |-> value, flag |-> FALSE]
    ELSE [command |-> "setPreservesPitch", num |-> 0, flag |-> (value = 0)]

\* the manipulator's fields after setSpeed(value) / setPitch(value)
mirrorAfter(m, action, value) ==
  IF action = "setSpeed"
    THEN [m EXCEPT !.currentSpeed = value]
    ELSE [m EXCEPT !.currentPitch = value,
                   !.currentPreservesPitch = (value = 0)]

\* manipulator.getSettings()
bridgeGetSettings(m) == [pitch |-> m.currentPitch, speed |-> m.currentSpeed]

\* what the content script's onMessage listener hands to sendResponse before
\* it returns ('init' answers later, from init()'s promise)
messageReply(action, m) ==
  IF action \in {"setPitch", "setSpeed"} THEN [success |-> TRUE]
  ELSE IF action = "getSettings"
    THEN [success |-> TRUE, settings |-> bridgeGetSettings(m)]
  ELSE UnknownAction

\* the call slot the next sendPageCommand takes
nextCall == CHOOSE c \in CallIds :
              /\ calls[c].status = "unused"
              /\ \A k \in CallIds : k < c => calls[k].status # "unused"

\* ------------------------------------------------------------- Controller
\* variant: the value is stored under the other key
persisted_swapped(st, action, value) ==
  IF action = "setPitch" THEN [st EXCEPT !.speed = value]
  ELSE IF action = "setSpeed" THEN [st EXCEPT !.pitch = value]
  ELSE st

\* chrome.storage.local after sendMessage's storage write
persisted(st, action, value) ==
  IF action = "setPitch" THEN [st EXCEPT !.pitch = value]
  ELSE IF action = "setSpeed" THEN [st EXCEPT !.speed = value]
  ELSE st

\* the state right after initializeExtension succeeded on a fresh install:
\* the agent is installed and one media element is registered, storage holds
\* the defaults written by onInstalled, and the saved settings (0, 1) have
\* been sent and applied
InitIntent ==
  /\ installed = TRUE
  /\ created = 1
  /\ kind = [e \in Elements |-> IF e = 1 THEN "media" ELSE "none"]
  /\ spotifyPlaybackEls = <<1>>
  /\ currentSpeed = 1
  /\ currentPreservesPitch = TRUE
  /\ playbackRate = [e \in Elements |-> 1]
  /\ preservesPitch = [e \in Elements |-> TRUE]
  /\ parentClass = [e \in Elements |-> NoParent]
  /\ domMedia = <<>>
  /\ paused = [e \in Elements |-> TRUE]
  /\ readyState = [e \in Elements |-> 0]
  /\ pendingApply = {}
  /\ dispatched = <<>>
  /\ calls = [c \in Slots |-> NoCall]
  /\ last = [op |-> "init", el |-> 0, arg |-> 0, tag |-> NoTag,
             before |-> <<"other", 0>>]
  /\ manipulator = [currentPitch |-> 0, currentSpeed |-> 1,
                    currentPreservesPitch |-> TRUE]
  /\ inits = [i \in InitIds |-> NoInit]
  /\ contentAlive = TRUE
  /\ popup = [isConnected |-> TRUE, status |-> StatusConnected]
  /\ storage = [pitch |-> 0, speed |-> 1]
  /\ reqs = [r \in CallIds |-> NoReq]
  /\ ports = [content |-> NoReply, background |-> NoReply]
  /\ everCanvas = {}
  /\ ctl = NoCtl

\* handlePitchChange / handleSpeedChange (the sliders are disabled while the
\* popup is not connected): sendMessage(action, value) up to and including
\* chrome.tabs.sendMessage
ctlSendMessage(r, action, value) ==
  /\ popup.isConnected
  /\ reqs[r].pc = "idle"
  /\ \A k \in CallIds : k < r => reqs[k].pc # "idle"
  /\ reqs' = [reqs EXCEPT ![r] =
       [NoReq EXCEPT !.pc = "sent", !.action = action, !.value = value]]
  /\ Note("ctlSendMessage", r, value)
  /\ UNCHANGED <<agentVars, calls, manipulator, inits, contentAlive, popup,
                 storage, ports,
                 everCanvas, ctl>>

\* the message of request r reaches the content script: the onMessage
\* listener runs manipulator.setPitch / setSpeed up to its first await (the
\* mirror is written, the page command sent) and answers at once
ctlDeliver(r) ==
  /\ reqs[r].pc = "sent"
  /\ contentAlive
  /\ manipulator' = mirrorAfter(manipulator, reqs[r].action, reqs[r].value)
  /\ issueCall(nextCall, forwardedDetail(reqs[r].action, reqs[r].value))
  /\ reqs' = [reqs EXCEPT ![r].pc = "replied",
                          ![r].reply = messageReply(reqs[r].action, manipulator'),
                          ![r].call = nextCall]
  /\ Note("ctlDeliver", r, reqs[r].value)
  /\ UNCHANGED <<inits, contentAlive, popup, storage, ports,
                 everCanvas, ctl>>

\* chrome.tabs.sendMessage of request r rejects (no content script in the
\* tab): the catch block of sendMessage
ctlFail(r) ==
  /\ reqs[r].pc = "sent"
  /\ ~contentAlive
  /\ popup' = [isConnected |-> FALSE, status |-> StatusLost]
  /\ reqs' = [reqs EXCEPT ![r].pc = "failed"]
  /\ Note("ctlFail", r, reqs[r].value)
  /\ UNCHANGED <<agentVars, calls, manipulator, inits, contentAlive, storage,
                 ports,
                 everCanvas, ctl>>

\* sendMessage of request r resumes after the await: chrome.storage.local.set
ctlPersist(r) ==
  /\ reqs[r].pc = "replied"
  /\ storage' = persisted(storage, reqs[r].action, reqs[r].value)
  /\ reqs' = [reqs EXCEPT ![r].pc = "done"]
  /\ Note("ctlPersist", r, reqs[r].value)
  /\ UNCHANGED <<agentVars, calls, manipulator, inits, contentAlive, popup,
                 ports,
                 everCanvas, ctl>>

\* a message from an extension page other than the popup reaches the content
\* script's onMessage listener
MessageActions == {"getSettings", "unknown"}

contentOnMessage(action) ==
  /\ contentAlive
  /\ ports' = [ports EXCEPT !.content = messageReply(action, manipulator)]
  /\ Note("contentOnMessage", 0, B2N(action = "unknown"))
  /\ UNCHANGED <<agentVars, calls, manipulator, inits, contentAlive, popup,
                 storage, reqs,
                 everCanvas, ctl>>

\* the background's onMessage listener; checkSpotifyTab answers from the
\* tabs.query callback (the tab list itself is left out)
BackgroundActions == {"logEvent", "checkSpotifyTab", "unknown"}

backgroundReply(action) ==
  IF action = "logEvent" THEN [success |-> TRUE]
  ELSE IF action = "checkSpotifyTab" THEN [hasSpotifyTab |-> contentAlive]
  ELSE UnknownAction

backgroundOnMessage(action) ==
  /\ ports' = [ports EXCEPT !.background = backgroundReply(action)]
  /\ Note("backgroundOnMessage", 0, B2N(action = "unknown"))
  /\ UNCHANGED <<agentVars, calls, manipulator, inits, contentAlive, popup,
                 storage, reqs,
                 everCanvas, ctl>>

\* the page realm stops answering: its command listener is gone while the
\* content script lives on
agentUnreachable ==
  /\ installed
  /\ installed' = FALSE
  /\ Note("agentUnreachable", 0, 0)
  /\ UNCHANGED <<created, kind, spotifyPlaybackEls, currentSpeed,
                 currentPreservesPitch, playbackRate, preservesPitch,
                 parentClass, domMedia, paused, readyState, pendingApply,
                 dispatched, calls, outerVars>>

\* the Spotify tab is closed or reloaded: the content script is gone and its
\* timers with it
tabGone ==
  /\ contentAlive
  /\ contentAlive' = FALSE
  /\ Note("tabGone", 0, 0)
  /\ UNCHANGED <<agentVars, calls, manipulator, inits, popup, storage, reqs,
                 ports,
                 everCanvas, ctl>>

\* ------------------------------------------- Controller initialization
MaxInitAttempts == 3

StatusNavigate == "Please navigate to open.spotify.com"
StatusConnecting == "Connecting to Spotify..."
StatusCouldNot == "Could not connect. Make sure a song is playing."

\* initializeExtension up to the retry loop: the active tab is looked up and
\* its url tested
ctlInitialize(onSpotify) ==
  /\ ctl.pc = "idle"
  /\ IF onSpotify
       THEN /\ ctl' = [ctl EXCEPT !.pc = "attempt"]
            /\ popup' = [popup EXCEPT !.status = StatusConnecting]
       ELSE /\ ctl' = [ctl EXCEPT !.pc = "done"]
            /\ popup' = [isConnected |-> FALSE, status |-> StatusNavigate]
  /\ Note("ctlInitialize", 0, B2N(onSpotify))
  /\ UNCHANGED <<agentVars, calls, manipulator, inits, contentAlive, storage,
                 reqs, ports, everCanvas>>

\* one turn of the retry loop up to the await: chrome.tabs.sendMessage(tab.id,
\* {action: 'init'}); a content script that is there starts init()
ctlInitAttempt ==
  /\ ctl.pc = "attempt"
  /\ ctl' = [ctl EXCEPT !.pc = "waiting", !.sent = @ + 1]
  /\ inits' = IF contentAlive THEN [inits EXCEPT ![1] = started]
                              ELSE [inits EXCEPT ![1] = NoInit]
  /\ Note("ctlInitAttempt", 0, 0)
  /\ UNCHANGED <<agentVars, calls, manipulator, contentAlive, popup, storage,
                 reqs, ports, everCanvas>>

\* variant: the loop runs while attempts <= maxAttempts
afterInitFailure_offByOne(c, pop) ==
  IF c.attempts + 1 <= MaxInitAttempts
    THEN [ctl |-> [c EXCEPT !.pc = "attempt", !.attempts = @ + 1], popup |-> pop]
    ELSE [ctl |-> [c EXCEPT !.pc = "done", !.attempts = @ + 1],
          popup |-> [isConnected |-> FALSE, status |-> StatusCouldNot]]

\* a turn that did not succeed: attempts++, then the 1000 ms wait and the
\* next turn, or the code after the loop
afterInitFailure(c, pop) ==
  IF c.attempts + 1 < MaxInitAttempts
    THEN [ctl |-> [c EXCEPT !.pc = "attempt", !.attempts = @ + 1], popup |-> pop]
    ELSE [ctl |-> [c EXCEPT !.pc = "done", !.attempts = @ + 1],
          popup |-> [isConnected |-> FALSE, status |-> StatusCouldNot]]

\* variant: only the saved pitch is sent
savedSettingsSent_pitchOnly ==
  [r \in CallIds |->
     IF r = 1 THEN [NoReq EXCEPT !.pc = "sent", !.action = "setPitch",
                                 !.value = storage.pitch]
     ELSE NoReq]

\* the saved settings are sent: sendMessage('setPitch', saved.pitch) and
\* sendMessage('setSpeed', saved.speed), neither awaited
savedSettingsSent ==
  [r \in CallIds |->
     IF r = 1 THEN [NoReq EXCEPT !.pc = "sent", !.action = "setPitch",
                                 !.value = storage.pitch]
     ELSE IF r = 2 THEN [NoReq EXCEPT !.pc = "sent", !.action = "setSpeed",
                                      !.value = storage.speed]
     ELSE NoReq]

\* the awaited chrome.tabs.sendMessage settles: with the answer of init(), or
\* by rejecting when no content script is there
ctlInitAnswer ==
  /\ ctl.pc = "waiting"
  /\ inits[1].pc = "done" \/ ~contentAlive
  /\ IF inits[1].pc = "done" /\ inits[1].reply.success
       THEN /\ ctl' = [ctl EXCEPT !.pc = "done", !.succeeded = TRUE]
            /\ popup' = [isConnected |-> TRUE, status |-> StatusConnected]
            /\ reqs' = savedSettingsSent
       ELSE /\ ctl' = afterInitFailure(ctl, popup).ctl
            /\ popup' = afterInitFailure(ctl, popup).popup
            /\ UNCHANGED reqs
  /\ Note("ctlInitAnswer", 0, 0)
  /\ UNCHANGED <<agentVars, calls, manipulator, inits, contentAlive, storage,
                 ports, everCanvas>>

\* ------------------------------------------------------------------- Next
\* Page Agent, rate arbitration: element creation, the deferred application,
\* host writes and re-parenting, SetSpeed commands
Next ==
  \/ \E t \in Tags : createElement(t)
  \/ \E cls \in ClassNames : hostParseMedia(cls)
  \/ \E e \in Elements : applySettings(e)
  \/ \E e \in Elements, x \in Speeds : hostWriteRate(e, x)
  \/ \E e \in Elements, cls \in ClassNames : hostAppendChild(e, cls)
  \/ \E d \in Details : d.command = "setSpeed" /\ onCommand(d)

Spec == Init /\ [][Next]_vars

\* Page Agent, settings: every command of the listener against element
\* creation, the deferred application and host writes
NextSettings ==
  \/ \E t \in Tags : createElement(t)
  \/ \E e \in Elements : applySettings(e)
  \/ \E e \in Elements, x \in Speeds : hostWriteRate(e, x)
  \/ \E e \in Elements, b \in BOOLEAN : hostWritePitch(e, b)
  \/ \E d \in Details : onCommand(d)

SpecSettings == Init /\ [][NextSettings]_vars

\* Page Agent, the deferred application: creation, attachment to a container
\* and both setting commands against the setTimeout callbacks
NextDeferred ==
  \/ \E t \in Tags : createElement(t)
  \/ \E e \in Elements : applySettings(e)
  \/ \E e \in Elements, cls \in ClassNames : hostAppendChild(e, cls)
  \/ \E d \in Details : d.command = "setSpeed" /\ d.num >= 1 /\ onCommand(d)
  \/ \E d \in Details : d.command = "setPreservesPitch" /\ onCommand(d)

SpecDeferred == Init /\ [][NextDeferred]_vars

\* setTimeout(..., 0) callbacks are eventually run by the event loop
FairSpecDeferred ==
  SpecDeferred /\ \A e \in Elements : WF_vars(applySettings(e))

\* Page Agent, rate arbitration with the history of canvas containers kept:
\* registered elements only
NextTracked ==
  \/ \E t \in Tags : createElement(t)
  \/ \E e \in Elements : applySettings(e)
  \/ \E e \in Elements, x \in Speeds : hostWriteRate(e, x)
  \/ \E e \in Elements, cls \in ClassNames : hostAppendChildTracked(e, cls)
  \/ \E d \in Details : d.command = "setSpeed" /\ onCommand(d)

SpecTracked == Init /\ [][NextTracked]_vars

\* Page Agent: everything that runs in the page realm and could touch the
\* remembered settings
NextFrame ==
  \/ \E t \in Tags : createElement(t)
  \/ \E e \in Elements : applySettings(e)
  \/ \E e \in Elements, x \in Speeds : hostWriteRate(e, x)
  \/ \E e \in Elements, x \in Speeds : taggedWrite(e, x)
  \/ \E d \in Details : onCommand(d)

SpecFrame == Init /\ [][NextFrame]_vars

\* Page Agent: the registry and the derived active element
ReadyStates == 0..4

NextActive ==
  \/ \E t \in Tags : createElement(t)
  \/ \E cls \in ClassNames : hostParseMedia(cls)
  \/ \E e \in Elements, p \in BOOLEAN, rs \in ReadyStates : hostPlayback(e, p, rs)
  \/ \E d \in Details : d.command = "checkMediaElement" /\ onCommand(d)

SpecActive == Init /\ [][NextActive]_vars

\* Bridge: concurrent cross-realm calls against the agent being installed
NextBridge ==
  \/ installAgent
  \/ \E t \in Tags : createElement(t)
  \/ \E c \in CallIds, d \in Details : sendPageCommand(c, d)
  \/ \E c \in CallIds : timeout(c)

SpecBridge == InitBridge /\ [][NextBridge]_vars

\* setTimeout callbacks are eventually run by the event loop
FairSpecBridge == SpecBridge /\ \A c \in CallIds : WF_vars(timeout(c))

\* Bridge: init() invocations, one after the other, against the agent being
\* installed and elements being created
NextInit ==
  \/ installAgent
  \/ \E t \in Tags : createElement(t)
  \/ \E i \in InitIds :
       /\ \A j \in InitIds : j < i => inits[j].pc = "done"
       /\ startInit(i)
  \/ \E i \in InitIds : initSend(i)
  \/ \E i \in InitIds : initResume(i)
  \/ \E i \in InitIds : timeout(initSlot(i))

SpecInit == InitBridge /\ [][NextInit]_vars

\* Bridge: one init() invocation with its commands counted
NextCount ==
  \/ installAgent
  \/ createElement(StrVideo)
  \/ startInit(1)
  \/ initSendCounted(1)
  \/ initResume(1)
  \/ timeout(initSlot(1))

SpecCount == InitBridge /\ [][NextCount]_vars

\* the timers (of the calls and of the sleeps between attempts) fire and the
\* continuations of resolved promises run
FairSpecCount ==
  /\ SpecCount
  /\ WF_vars(timeout(initSlot(1)))
  /\ WF_vars(initSendCounted(1))
  /\ WF_vars(initResume(1))

\* Bridge: an init() invocation while another cross-realm call is made, with
\* any of the three kinds of answer
ConcurrentDetails ==
  { d \in Details :
      \/ d.command \in {"checkReady", "checkMediaElement"}
      \/ d.command = "setSpeed" /\ d.num = 1 }

NextConcurrent ==
  \/ installAgent
  \/ createElement(StrVideo)
  \/ startInit(1)
  \/ initSend(1)
  \/ initResume(1)
  \/ timeout(initSlot(1))
  \/ \E d \in ConcurrentDetails : sendPageCommand(1, d)
  \/ timeout(1)

SpecConcurrent == InitBridge /\ [][NextConcurrent]_vars

\* Page Agent, reach of SetSpeed: the element CheckHasElement answers for
\* against the elements setSpeed writes, media elements coming from the
\* createElement wrapper and from parsed markup
NextReach ==
  \/ \E t \in Tags : createElement(t)
  \/ \E cls \in ClassNames : hostParseMedia(cls)
  \/ \E e \in Elements : applySettings(e)
  \/ \E e \in Elements, cls \in ClassNames : hostAppendChild(e, cls)
  \/ \E d \in Details : d.command = "checkMediaElement" /\ onCommand(d)
  \/ \E d \in Details : d.command = "setSpeed" /\ onCommand(d)

SpecReach == Init /\ [][NextReach]_vars

\* Controller: initializeExtension against the Bridge's init(), the agent
\* being installed and elements being created
NextConnect ==
  \/ installAgent
  \/ createElement(StrVideo)
  \/ tabGone
  \/ \E b \in BOOLEAN : ctlInitialize(b)
  \/ ctlInitAttempt
  \/ ctlInitAnswer
  \/ contentAlive /\ initSend(1)
  \/ contentAlive /\ initResume(1)
  \/ contentAlive /\ timeout(initSlot(1))

SpecConnect == InitBridge /\ [][NextConnect]_vars

\* Controller: initializeExtension in a tab whose page stays, with storage
\* holding what an earlier popup session persisted, and the two sendMessage
\* runs that re-apply it
InitRestore ==
  /\ installed = FALSE
  /\ InitExceptStorage
  /\ storage \in [pitch : Values, speed : Values]

NextRestore ==
  \/ installAgent
  \/ createElement(StrVideo)
  \/ \E b \in BOOLEAN : ctlInitialize(b)
  \/ ctlInitAttempt
  \/ ctlInitAnswer
  \/ initSend(1)
  \/ initResume(1)
  \/ timeout(initSlot(1))
  \/ \E r \in CallIds : ctlDeliver(r)
  \/ \E r \in CallIds : ctlPersist(r)
  \/ \E c \in CallIds : timeout(c)

SpecRestore == InitRestore /\ [][NextRestore]_vars

\* chrome.tabs.sendMessage to a tab whose content script lives is delivered
FairSpecRestore ==
  /\ SpecRestore
  /\ \A r \in CallIds : WF_vars(ctlDeliver(r))

\* the popup's setPitch / setSpeed requests in a connected session
NextIntent ==
  \/ \E r \in CallIds, a \in {"setPitch", "setSpeed"}, v \in Values :
       ctlSendMessage(r, a, v)
  \/ \E r \in CallIds : ctlDeliver(r)
  \/ \E r \in CallIds : ctlFail(r)
  \/ \E r \in CallIds : ctlPersist(r)
  \/ \E c \in CallIds : contentAlive /\ timeout(c)
  \/ agentUnreachable
  \/ tabGone

SpecIntent == InitIntent /\ [][NextIntent]_vars

\* the three responders, each handed whatever a sender may hand it
NextResponders ==
  \/ \E d \in Details \cup {UnknownDetail} : onCommand(d)
  \/ \E a \in MessageActions : contentOnMessage(a)
  \/ \E a \in BackgroundActions : backgroundOnMessage(a)

SpecResponders == InitIntent /\ [][NextResponders]_vars


\* ================================================================== claims
Registered == SeqToSet(spotifyPlaybackEls)

\* indices of the registry whose element is playing with readyState >= 2
Qualifying ==
  { i \in 1..Len(spotifyPlaybackEls) :
      ~paused[spotifyPlaybackEls[i]] /\ readyState[spotifyPlaybackEls[i]] >= 2 }

MaxOf(S) == CHOOSE x \in S : \A y \in S : y <= x

\* the letters of "canvas", each in either case
CanvasLetters ==
  << {"c","C"}, {"a","A"}, {"n","N"}, {"v","V"}, {"a","A"}, {"s","S"} >>

\* e has a parent whose class name contains "canvas" in some mix of cases
InCanvasContainer(e) ==
  /\ parentClass[e] # NoParent
  /\ \E i \in 0..(Len(parentClass[e]) - 6) :
       \A j \in 1..6 : parentClass[e][i + j] \in CanvasLetters[j]

\* C1: after a host bare-number write to the playback rate of a media element
\* that is not canvas content, the property holds the agent's currentSpeed,
\* which is the value of the SetSpeed processed just before, and not the
\* value the host wrote (unless the two coincide).
C1_HostWriteKeepsSystemSpeed ==
  (last.op = "hostWrite" /\ ~InCanvasContainer(last.el)) =>
     /\ playbackRate[last.el] = currentSpeed
     /\ last.before[1] = "setSpeed" => playbackRate[last.el] = last.before[2]
     /\ last.arg # currentSpeed => playbackRate[last.el] # last.arg

C1_Witness ==
  /\ last.op = "hostWrite"
  /\ ~InCanvasContainer(last.el)
  /\ last.before = <<"setSpeed", 2>>
  /\ last.arg = 0
  /\ playbackRate[last.el] = 2

\* C2: a write to the playback rate of an element whose parent's class name
\* contains "canvas" in any letter case leaves the rate at exactly 1, for a
\* host bare number, for the deferred tagged write and for the tagged writes
\* of SetSpeed alike.
C2_CanvasForcedToOne ==
  /\ (last.op \in {"hostWrite", "applySettings"} /\ InCanvasContainer(last.el))
        => playbackRate[last.el] = 1
  /\ last.op = "setSpeed"
        => \A e \in Registered : InCanvasContainer(e) => playbackRate[e] = 1

C2_Witness ==
  /\ last.op = "hostWrite"
  /\ last.el \in Registered
  /\ parentClass[last.el] = <<"a","d","-","C","a","n","V","A","S","-","x">>
  /\ last.before = <<"setSpeed", 2>>
  /\ last.arg = 0
  /\ playbackRate[last.el] = 1

\* C3 as stated: getMediaElement is null only when the registry is empty, and
\* otherwise returns an element of the registry.
C3_Original ==
  /\ getMediaElement = Null => spotifyPlaybackEls = << >>
  /\ getMediaElement # Null => getMediaElement \in Registered

\* C3 amended: getMediaElement is null only when the registry is empty and no
\* audio/video element is in the document; a non-null result is an element of
\* the registry or, when the registry is empty, the last audio/video element
\* of the document.
C3_ActiveElementOrigin ==
  /\ getMediaElement = Null => (spotifyPlaybackEls = << >> /\ domMedia = << >>)
  /\ getMediaElement # Null =>
       \/ getMediaElement \in Registered
       \/ /\ spotifyPlaybackEls = << >>
          /\ domMedia # << >>
          /\ getMediaElement = domMedia[Len(domMedia)]

C3_Witness ==
  /\ last.op = "checkMediaElement"
  /\ dispatched = << [hasMediaElement |-> TRUE] >>
  /\ spotifyPlaybackEls = << >>
  /\ Len(domMedia) = 2
  /\ getMediaElement = domMedia[2]

\* C4: getMediaElement returns the most recently created registered element
\* that is not paused and has readyState >= 2 when one exists; when none
\* qualifies and the registry is non-empty it returns the most recently
\* created registered element.
C4_MostRecentPlaying ==
  /\ Qualifying # {} => getMediaElement = spotifyPlaybackEls[MaxOf(Qualifying)]
  /\ (Qualifying = {} /\ Len(spotifyPlaybackEls) > 0)
        => getMediaElement = spotifyPlaybackEls[Len(spotifyPlaybackEls)]

C4_Witness ==
  /\ last.op = "checkMediaElement"
  /\ Len(spotifyPlaybackEls) = 2
  /\ Qualifying = {1}
  /\ readyState[spotifyPlaybackEls[1]] = 2
  /\ ~paused[spotifyPlaybackEls[2]]
  /\ getMediaElement = spotifyPlaybackEls[1]

\* C5: processing SetSpeed(v) stores v as currentSpeed, leaves every
\* registered element that is not canvas content with rate v in the same
\* step, and dispatches exactly one response {success: true}.
C5_SetSpeedApplies ==
  last.op = "setSpeed" =>
     /\ currentSpeed = last.arg
     /\ \A e \in Registered : ~InCanvasContainer(e) => playbackRate[e] = last.arg
     /\ dispatched = << [success |-> TRUE] >>

C5_Witness ==
  /\ last.op = "setSpeed"
  /\ last.arg = 2
  /\ Len(spotifyPlaybackEls) = 2
  /\ \A e \in Registered : ~InCanvasContainer(e) /\ playbackRate[e] = 2
  /\ pendingApply = Registered

\* C6: processing SetPreservesPitch(b) stores b, sets the native
\* preservesPitch flag of every registered element to b in the same step, and
\* dispatches exactly one response {success: true}.
C6_SetPreservesPitchApplies ==
  last.op = "setPreservesPitch" =>
     /\ currentPreservesPitch = (last.arg = 1)
     /\ \A e \in Registered : preservesPitch[e] = (last.arg = 1)
     /\ dispatched = << [success |-> TRUE] >>

C6_Witness ==
  /\ last.op = "setPreservesPitch"
  /\ last.arg = 0
  /\ Len(spotifyPlaybackEls) = 2
  /\ \A e \in Registered : ~preservesPitch[e]
  /\ ~currentPreservesPitch

\* C7: a SetSpeed(v) processed directly after a SetSpeed(v) changes neither
\* currentSpeed, nor the rate of any element, nor the registry.
C7_SetSpeedIdempotent ==
  [][ (last.op = "setSpeed" /\ last'.op = "setSpeed" /\ last'.arg = last.arg)
        => UNCHANGED <<currentSpeed, playbackRate, spotifyPlaybackEls>> ]_vars

C7_Witness ==
  /\ last.op = "setSpeed"
  /\ last.before = <<"setSpeed", last.arg>>
  /\ last.arg = 2
  /\ Len(spotifyPlaybackEls) = 2
  /\ \E e \in Registered : playbackRate[e] = 2

\* C8 as stated: after SetSpeed(v) then SetPreservesPitch(b), getSettings()
\* is exactly {speed: v, preservesPitch: b}.
C8_Original ==
  (last.op = "setPreservesPitch" /\ last.before[1] = "setSpeed") =>
     getSettings = [speed |-> last.before[2], preservesPitch |-> (last.arg = 1)]

\* C8 amended: after SetSpeed(v) then SetPreservesPitch(b), the Page Agent's
\* getSettings() is {speed: v, preservesPitch: b, elementCount: n} with n the
\* length of the registry.
C8_SettingsRoundTrip ==
  (last.op = "setPreservesPitch" /\ last.before[1] = "setSpeed") =>
     getSettings = [speed |-> last.before[2],
                    preservesPitch |-> (last.arg = 1),
                    elementCount |-> Len(spotifyPlaybackEls)]

C8_Witness ==
  /\ last.op = "setPreservesPitch"
  /\ last.arg = 0
  /\ last.before = <<"setSpeed", 2>>
  /\ getSettings = [speed |-> 2, preservesPitch |-> FALSE, elementCount |-> 1]

\* C9: a call for which no response event is dispatched between its command
\* and its timer resolves to null when the timer fires, and no call stays
\* pending forever.
C9_TimeoutResolves ==
  /\ [](\A c \in CallIds :
          (calls[c].status # "unused" /\ ~calls[c].timer /\ ~calls[c].heard)
             => (calls[c].status = "resolved" /\ calls[c].payload = NullPayload))
  /\ \A c \in CallIds :
       (calls[c].status = "pending") ~> (calls[c].status = "resolved")

C9_Witness ==
  \E c \in CallIds :
    /\ calls[c].cmd = "checkReady"
    /\ calls[c].status = "resolved"
    /\ ~calls[c].timer
    /\ ~calls[c].heard
    /\ calls[c].payload = NullPayload
    /\ last.op = "timeout"
    /\ last.el = c

\* C10 as stated: every command that reaches the agent is answered by exactly
\* one response, and a call that resolves with a response payload holds the
\* response produced for its own command.
C10_OwnResponse ==
  \A c \in CallIds :
    /\ calls[c].reached => calls[c].answers = 1
    /\ (calls[c].status = "resolved" /\ calls[c].payload # NullPayload)
          => calls[c].from = c

Failure == [success |-> FALSE]
Success == [success |-> TRUE]

\* C11: an init() started while the agent is installed, with no media element
\* existing until it returns, gets a ready answer, polls for an element and
\* answers failure at the end of the element wait; an init() started while
\* the agent is installed and an active element exists answers success.
C11_EndToEnd ==
  \A i \in InitIds :
    inits[i].pc = "done" =>
      /\ (inits[i].startInstalled /\ getMediaElement = Null) =>
            /\ inits[i].reply = Failure
            /\ inits[i].end = "noElement"
            /\ inits[i].finalAnswer = [ready |-> TRUE]
            /\ inits[i].elemAnswer = [hasMediaElement |-> FALSE]
      /\ (inits[i].startInstalled /\ inits[i].startElement) =>
            inits[i].reply = Success

C11_Witness ==
  /\ inits[1].pc = "done"
  /\ inits[1].startInstalled
  /\ inits[1].end = "noElement"
  /\ inits[1].reply = Failure
  /\ inits[2].pc = "done"
  /\ inits[2].startElement
  /\ inits[2].reply = Success

InElementPhase(i) ==
  inits[i].pc \in {"elem", "elemWait", "elemLoop", "elemLoopWait"}

\* C12 as stated: once the readiness loop has used up its attempts without a
\* ready answer, init() does not go on to the element checks and answers
\* failure; once the element wait has used up its attempts it answers failure.
C12_Original ==
  \A i \in InitIds :
    /\ inits[i].exhausted =>
         /\ ~InElementPhase(i)
         /\ inits[i].pc = "done" => inits[i].reply = Failure
    /\ inits[i].end = "noElement" => inits[i].reply = Failure

\* C12 amended: init() answers failure when the final readiness check that
\* follows the poll loop gets no ready answer (whether or not the loop used up
\* its attempts), and when the last turn of the element wait loop gets no
\* positive answer.
C12_ExhaustionFails ==
  [][ \A i \in InitIds :
        /\ ( /\ inits[i].pc = "finalWait"
             /\ inits'[i].pc # "finalWait"
             /\ calls[initSlot(i)].payload # [ready |-> TRUE] )
           => (inits'[i].pc = "done" /\ inits'[i].reply = Failure)
        /\ ( /\ inits[i].pc = "elemLoopWait"
             /\ inits[i].attempts = MaxElementAttempts - 1
             /\ inits'[i].pc # "elemLoopWait"
             /\ calls[initSlot(i)].payload # [hasMediaElement |-> TRUE] )
           => (inits'[i].pc = "done" /\ inits'[i].reply = Failure)
    ]_vars

C12_Witness ==
  /\ inits[1].pc = "done"
  /\ inits[1].exhausted
  /\ inits[1].end = "notReady"
  /\ inits[1].reply = Failure
  /\ inits[2].pc = "done"
  /\ inits[2].end = "noElement"
  /\ inits[2].reply = Failure

\* C14 as stated: a CheckReady sent while the agent is installed resolves with
\* {ready: true}; a CheckReady sent before the agent is installed is never
\* answered and, when it resolves, resolves by timeout (null).
C14_CheckReady ==
  \A c \in CallIds :
    calls[c].cmd = "checkReady" =>
      /\ calls[c].reached =>
           (calls[c].status = "resolved" /\ calls[c].payload = [ready |-> TRUE])
      /\ ~calls[c].reached =>
           /\ calls[c].answers = 0
           /\ calls[c].status = "resolved" => calls[c].payload = NullPayload

\* C18: a SetSpeed whose value is 0 or negative is stored as currentSpeed,
\* written to every registered element that is not canvas content, and
\* acknowledged with {success: true}.
C18_NonPositiveAccepted ==
  (last.op = "setSpeed" /\ last.arg <= 0) =>
     /\ currentSpeed = last.arg
     /\ \A e \in Registered : ~InCanvasContainer(e) => playbackRate[e] = last.arg
     /\ dispatched = << [success |-> TRUE] >>

C18_Witness ==
  /\ last.op = "setSpeed"
  /\ last.arg = -1
  /\ currentSpeed = -1
  /\ \E e \in Registered : ~InCanvasContainer(e) /\ playbackRate[e] = -1
  /\ last.before = <<"setSpeed", 0>>

\* C19 as stated: in every state, a media element whose parent's class name
\* contains "canvas" has playback rate exactly 1.
C19_CanvasAlwaysOne ==
  \A e \in Elements :
    (e <= created /\ kind[e] = "media" /\ InCanvasContainer(e))
       => playbackRate[e] = 1

\* C20 as stated: after SetPreservesPitch(b), a host write to the
\* preservesPitch flag of a registered element leaves the flag equal to b.
C20_PitchSurvivesHostWrite ==
  ( /\ last.op = "hostWritePitch"
    /\ last.el \in Registered
    /\ last.before[1] = "setPreservesPitch" )
     => preservesPitch[last.el] = (last.before[2] = 1)

\* C13 as stated: an unknown command to the agent's command listener, and an
\* unknown action to the content script's or the background's message
\* listener, is answered with a failure payload.
C13_UnknownAnswered ==
  /\ last.op = "unknown" =>
       /\ dispatched # << >>
       /\ \A k \in 1..Len(dispatched) :
            /\ "success" \in DOMAIN dispatched[k]
            /\ dispatched[k].success = FALSE
  /\ (last.op = "contentOnMessage" /\ last.arg = 1) =>
       ports.content = UnknownAction
  /\ (last.op = "backgroundOnMessage" /\ last.arg = 1) =>
       ports.background = UnknownAction

\* requests whose message the content script has handled
Delivered(r) == reqs[r].pc \in {"replied", "done"}

\* page commands sent so far
UsedCalls == { c \in CallIds : calls[c].status # "unused" }

\* the call of request r was never answered and resolved null on its timer
TimedOut(r) ==
  /\ Delivered(r)
  /\ calls[reqs[r].call].status = "resolved"
  /\ calls[reqs[r].call].payload = NullPayload
  /\ calls[reqs[r].call].answers = 0

\* C15: every delivered setSpeed / setPitch request has caused exactly one
\* page command of its kind (setSpeed, resp. setPreservesPitch), no command
\* is sent besides these (none is re-sent when a timer fires), and the
\* request was answered {success: true} whatever became of the command.
C15_FireAndForget ==
  /\ \A r \in CallIds :
       Delivered(r) =>
         /\ reqs[r].reply = [success |-> TRUE]
         /\ reqs[r].call \in UsedCalls
         /\ calls[reqs[r].call].cmd =
              (IF reqs[r].action = "setSpeed" THEN "setSpeed"
                                              ELSE "setPreservesPitch")
         /\ \A q \in CallIds :
              (Delivered(q) /\ q # r) => reqs[q].call # reqs[r].call
  /\ Cardinality(UsedCalls) = Cardinality({ r \in CallIds : Delivered(r) })

C15_Witness ==
  /\ last.op = "timeout"
  /\ \E r \in CallIds :
       /\ TimedOut(r)
       /\ reqs[r].action = "setPitch"
       /\ reqs[r].reply = [success |-> TRUE]
       /\ UsedCalls = {reqs[r].call}

\* C16 as stated: a request whose page command timed out leaves the popup
\* with the connection-lost status.
C16_TimeoutSurfaced ==
  \A r \in CallIds :
    (reqs[r].pc = "done" /\ TimedOut(r)) =>
       (popup.status = StatusLost /\ ~popup.isConnected)

\* C17: the storage write of a delivered request sets exactly the entry of
\* its key to its value, acknowledged or not; a request whose message fails
\* leaves storage alone and turns the popup to disconnected; nothing else
\* writes storage.
C17_Persistence ==
  [][ /\ \A r \in CallIds :
           /\ (reqs[r].pc = "replied" /\ reqs'[r].pc = "done") =>
                IF reqs[r].action = "setSpeed"
                  THEN storage' = [pitch |-> storage.pitch, speed |-> reqs[r].value]
                  ELSE storage' = [pitch |-> reqs[r].value, speed |-> storage.speed]
           /\ (reqs[r].pc = "sent" /\ reqs'[r].pc = "failed") =>
                /\ storage' = storage
                /\ ~popup'.isConnected
                /\ popup'.status = StatusLost
      /\ storage' # storage =>
           \E r \in CallIds : reqs[r].pc = "replied" /\ reqs'[r].pc = "done"
    ]_vars

C17_Witness ==
  \E r, q \in CallIds :
    /\ reqs[r].pc = "done"
    /\ TimedOut(r)
    /\ reqs[r].action = "setSpeed"
    /\ reqs[r].value = 2
    /\ storage = [pitch |-> 0, speed |-> 2]
    /\ reqs[q].pc = "failed"
    /\ reqs[q].action = "setPitch"
    /\ reqs[q].value = 1
    /\ ~popup.isConnected

\* the letters of "video" and of "audio", each in either case
VideoLetters == << {"v","V"}, {"i","I"}, {"d","D"}, {"e","E"}, {"o","O"} >>
AudioLetters == << {"a","A"}, {"u","U"}, {"d","D"}, {"i","I"}, {"o","O"} >>

\* tagName spells video or audio in some mix of cases
SpellsMedia(tagName) ==
  /\ Len(tagName) = 5
  /\ \/ \A j \in 1..5 : tagName[j] \in VideoLetters[j]
     \/ \A j \in 1..5 : tagName[j] \in AudioLetters[j]

\* C21: a step changes the registry only if it is a createElement call whose
\* tag spells video or audio in any mix of cases, and then it appends the
\* element handed back to the caller at the end; every other step (another
\* tag, a command, a property write, the deferred application) leaves the
\* registry as it was.
C21_RegistryAppendOnly ==
  [][ IF /\ last'.op = "createElement"
         /\ created' = created + 1
         /\ SpellsMedia(last'.tag)
        THEN /\ last'.el = created'
             /\ spotifyPlaybackEls' = Append(spotifyPlaybackEls, created')
        ELSE spotifyPlaybackEls' = spotifyPlaybackEls
    ]_vars

C21_Witness ==
  /\ last.op = "createElement"
  /\ last.tag = <<"A","U","D","I","O">>
  /\ spotifyPlaybackEls = <<1, 2>>
  /\ kind[1] = "media"

\* a step that is a createElement call handing back a media element
CreatesMedia ==
  /\ last'.op = "createElement"
  /\ created' = created + 1
  /\ kind'[created'] = "media"

\* a step in which the deferred application of e runs
AppliesTo(e) == e \in pendingApply /\ e \notin pendingApply'

\* every pending deferred application eventually runs
EveryApplicationRuns ==
  \A e \in Elements : (e \in pendingApply) ~> (e \notin pendingApply)

\* C22 as stated: the creation step writes neither the rate nor the flag of
\* the new element; the deferred step leaves the element with the speed and
\* the preserve-pitch setting current when it runs; every created media
\* element eventually has the deferred step run.
C22_Original ==
  /\ [][ /\ CreatesMedia =>
              /\ playbackRate' = playbackRate
              /\ preservesPitch' = preservesPitch
              /\ created' \in pendingApply'
         /\ \A e \in Elements :
              AppliesTo(e) =>
                /\ playbackRate'[e] = currentSpeed
                /\ preservesPitch'[e] = currentPreservesPitch
       ]_vars
  /\ EveryApplicationRuns

\* C22 amended: as above, except that the deferred step leaves an element
\* that is inside a canvas container with rate 1.
C22_DeferredApplication ==
  /\ [][ /\ CreatesMedia =>
              /\ playbackRate' = playbackRate
              /\ preservesPitch' = preservesPitch
              /\ created' \in pendingApply'
         /\ \A e \in Elements :
              AppliesTo(e) =>
                /\ playbackRate'[e] =
                     (IF InCanvasContainer(e) THEN 1 ELSE currentSpeed)
                /\ preservesPitch'[e] = currentPreservesPitch
                /\ currentSpeed' = currentSpeed
                /\ currentPreservesPitch' = currentPreservesPitch
       ]_vars
  /\ EveryApplicationRuns

C22_Witness ==
  /\ last.op = "applySettings"
  /\ last.before = <<"setSpeed", 2>>
  /\ ~InCanvasContainer(last.el)
  /\ playbackRate[last.el] = 2
  /\ currentPreservesPitch = FALSE
  /\ preservesPitch[last.el] = FALSE
  /\ pendingApply = {}

\* C23: whenever no deferred application is pending, every registered element
\* that has never been inside a canvas container has the agent's currentSpeed
\* as its playback rate.
C23_SteadyRate ==
  pendingApply = {} =>
     \A e \in Registered : e \notin everCanvas => playbackRate[e] = currentSpeed

C23_Witness ==
  /\ pendingApply = {}
  /\ last.op = "hostWrite"
  /\ last.arg = 0
  /\ currentSpeed = 2
  /\ Len(spotifyPlaybackEls) = 2
  /\ \E e \in Registered :
       /\ e \notin everCanvas
       /\ parentClass[e] # NoParent
       /\ e = last.el
       /\ playbackRate[e] = 2
  /\ \E e \in Registered :
       /\ e \in everCanvas
       /\ ~InCanvasContainer(e)
       /\ playbackRate[e] # currentSpeed

\* C24: a step changes currentSpeed only if it processes a SetSpeed command
\* (the new value being the command's), and changes the preserve-pitch
\* setting only if it processes a SetPreservesPitch command; element creation,
\* host writes of the rate, tagged writes, the deferred application,
\* CheckReady and CheckHasElement change neither.
C24_SettingsFrame ==
  [][ /\ currentSpeed' # currentSpeed =>
           (last'.op = "setSpeed" /\ last'.arg = currentSpeed')
      /\ currentPreservesPitch' # currentPreservesPitch =>
           (last'.op = "setPreservesPitch"
              /\ last'.arg = B2N(currentPreservesPitch'))
      /\ ( /\ last' # last
           /\ last'.op \in {"createElement", "hostWrite", "taggedWrite",
                            "applySettings", "checkReady", "checkMediaElement"} )
           => /\ currentSpeed' = currentSpeed
              /\ currentPreservesPitch' = currentPreservesPitch
    ]_vars

C24_Witness ==
  /\ last.op = "taggedWrite"
  /\ last.arg = 0
  /\ playbackRate[last.el] = 0
  /\ currentSpeed = 2
  /\ currentPreservesPitch = FALSE
  /\ last.el \in Registered

\* C25: an init() invocation never sends more than 51 CheckReady commands
\* (50 polled and the final one) nor more than 41 CheckHasElement commands
\* (the immediate one and 40 polled), and once started it ends, answering
\* success or failure.
C25_InitTerminates ==
  /\ [](inits[1].readySent <= MaxReadyAttempts + 1)
  /\ [](inits[1].elemSent <= MaxElementAttempts + 1)
  /\ [](inits[1].pc = "done" => inits[1].reply \in {Success, Failure})
  /\ (inits[1].pc # "idle") ~> (inits[1].pc = "done")

C25_Witness ==
  /\ inits[1].pc = "done"
  /\ inits[1].readySent = MaxReadyAttempts + 1
  /\ inits[1].elemSent = MaxElementAttempts + 1
  /\ inits[1].reply = Failure

\* C26: an init() invocation that answered success has, with the agent
\* installed, received {ready: true} to its final readiness check and then
\* {hasMediaElement: true} to an element check, and the agent's derived
\* active element is not null, whatever other calls were in flight.
C26_SuccessIsGrounded ==
  \A i \in InitIds :
    inits[i].reply = Success =>
      /\ installed
      /\ inits[i].finalAnswer = [ready |-> TRUE]
      /\ inits[i].elemAnswer = [hasMediaElement |-> TRUE]
      /\ getMediaElement # Null

\* the init() invocation succeeded although its readiness answer also
\* resolved another call that was in flight
C26_Witness ==
  /\ inits[1].reply = Success
  /\ ~inits[1].startInstalled
  /\ ~inits[1].startElement
  /\ inits[1].end = "foundWaiting"
  /\ calls[1].cmd = "checkMediaElement"
  /\ calls[1].status = "resolved"
  /\ calls[1].payload = [ready |-> TRUE]

\* C27: a call that has resolved, by a response or by its timer, has no
\* response listener registered, and the registered response listeners are
\* never more than the calls still unresolved.
C27_ListenersTornDown ==
  /\ \A c \in Slots : calls[c].status = "resolved" => ~calls[c].listener
  /\ Cardinality({ c \in Slots : calls[c].listener })
       <= Cardinality({ c \in Slots : calls[c].status = "pending" })

C27_Witness ==
  \E c, k \in CallIds :
    /\ calls[c].status = "resolved"
    /\ calls[c].payload = NullPayload
    /\ calls[c].answers = 0
    /\ ~calls[c].listener
    /\ calls[k].status = "resolved"
    /\ calls[k].payload = [hasMediaElement |-> TRUE]
    /\ calls[k].answers = 1
    /\ calls[k].timer
    /\ ~calls[k].listener

\* C28: once a call has resolved its outcome stays: neither a response
\* dispatched later nor its own timer firing later changes the payload it
\* resolved with.
C28_ResolvesOnce ==
  [][ \A c \in Slots :
        calls[c].status = "resolved" =>
          /\ calls'[c].status = "resolved"
          /\ calls'[c].payload = calls[c].payload
    ]_vars

\* call 1 timed out before any response was dispatched and a later response
\* left it alone; call 2 got its response and its timer fired afterwards
C28_Witness ==
  /\ calls[1].status = "resolved"
  /\ calls[1].payload = NullPayload
  /\ ~calls[1].heard
  /\ ~calls[1].timer
  /\ calls[2].status = "resolved"
  /\ calls[2].cmd = "checkReady"
  /\ calls[2].payload = [ready |-> TRUE]
  /\ calls[2].answers = 1
  /\ ~calls[2].timer
  /\ last.op = "timeout"
  /\ last.el = 2

\* C29: a Controller initialization sends at most 3 init requests and none
\* after one was answered with success; when it has ended the popup is
\* connected if and only if a request was answered with success, and it is
\* never connected without one; an initialization on the Spotify tab that
\* ends without success has sent all 3.
C29_BoundedInit ==
  /\ [](ctl.sent <= 3)
  /\ [](popup.isConnected => ctl.succeeded)
  /\ [](ctl.pc = "done" => (popup.isConnected <=> ctl.succeeded))
  /\ []((ctl.pc = "done" /\ ~ctl.succeeded /\ popup.status # StatusNavigate)
          => (ctl.sent = 3 /\ ~popup.isConnected))
  /\ [][ctl.succeeded => ctl'.sent = ctl.sent]_vars
  /\ [][ctl'.succeeded /\ ~ctl.succeeded =>
          (inits[1].pc = "done" /\ inits[1].reply = Success)]_vars

C29_Witness ==
  /\ ctl.pc = "done"
  /\ ctl.succeeded
  /\ ctl.sent = 3
  /\ popup = [isConnected |-> TRUE, status |-> StatusConnected]
  /\ inits[1].end = "foundWaiting"

\* C30: when CheckHasElement has answered true and SetSpeed(v) is processed
\* next, the element the answer was derived from (getMediaElement at that
\* moment), if it is not inside a canvas container, has playback rate v
\* after the SetSpeed.
C30_ActiveElementFollowsSpeed ==
  [][(/\ last.op = "checkMediaElement"
      /\ dispatched = << [hasMediaElement |-> TRUE] >>
      /\ last'.op = "setSpeed")
       => (~InCanvasContainer(getMediaElement)
             => playbackRate'[getMediaElement] = last'.arg)]_vars

\* the page commands sent in the step
NewCalls == { c \in CallIds : calls[c].status = "unused" /\ calls'[c].status # "unused" }

\* C32: when the Bridge handles setPitch(n), getSettings afterwards returns
\* pitch n, exactly one page command is sent in that step and it is a
\* SetPreservesPitch; the value it carries is true exactly when n = 0: the
\* Bridge's own preserve-pitch field holds that value, and an agent that
\* listens stores it and writes it to every registered element.
C32_SetPitchForwards ==
  [][\A r \in CallIds :
       (reqs[r].pc = "sent" /\ reqs'[r].pc = "replied" /\ reqs[r].action = "setPitch")
         => /\ bridgeGetSettings(manipulator').pitch = reqs[r].value
            /\ bridgeGetSettings(manipulator').speed = bridgeGetSettings(manipulator).speed
            /\ Cardinality(NewCalls) = 1
            /\ \A c \in NewCalls : calls'[c].cmd = "setPreservesPitch"
            /\ manipulator'.currentPreservesPitch = (reqs[r].value = 0)
            /\ installed =>
                 /\ currentPreservesPitch' = (reqs[r].value = 0)
                 /\ \A e \in Registered : preservesPitch'[e] = (reqs[r].value = 0)
                 /\ dispatched' = << [success |-> TRUE] >>
    ]_vars

C32_Witness ==
  /\ last.op = "ctlDeliver"
  /\ reqs[2].pc = "replied"
  /\ reqs[2].action = "setPitch"
  /\ reqs[2].value = 2
  /\ reqs[1].action = "setPitch"
  /\ reqs[1].value = 0
  /\ reqs[1].pc = "done"
  /\ installed
  /\ manipulator.currentPitch = 2
  /\ currentPreservesPitch = FALSE
  /\ preservesPitch[1] = FALSE
  /\ calls[reqs[2].call].cmd = "setPreservesPitch"

\* C31: when the Controller has issued setSpeed(a) and then setSpeed(b), the
\* second possibly before the first has finished, and both have run to their
\* end with the content script and the agent reachable, the persisted speed,
\* the Bridge's mirrored speed and the agent's currentSpeed all equal b.
\* (A second request issued after the first has finished is the case without
\* overlap; it is covered as well.)
C31_LastSpeedWins ==
  (/\ reqs[1].action = "setSpeed" /\ reqs[1].pc = "done"
   /\ reqs[2].action = "setSpeed" /\ reqs[2].pc = "done"
   /\ installed /\ contentAlive
   /\ \A c \in CallIds : calls[c].status # "unused" => calls[c].reached)
     => /\ storage.speed = reqs[2].value
        /\ manipulator.currentSpeed = reqs[2].value
        /\ currentSpeed = reqs[2].value

\* C33: once a Controller initialization has succeeded with storage holding
\* pitch p and speed s, in a tab whose content script and agent stay, the
\* agent eventually has currentSpeed = s and currentPreservesPitch = (p = 0);
\* storage still holds p and s then, the re-application writing back the
\* values it read.
C33_SettingsRestored ==
  /\ ctl.succeeded
       ~> (/\ currentSpeed = storage.speed
           /\ currentPreservesPitch = (storage.pitch = 0))
  /\ [][ctl.succeeded => storage' = storage]_vars

C33_Witness ==
  /\ ctl.succeeded
  /\ storage = [pitch |-> 2, speed |-> 2]
  /\ reqs[1].pc = "done"
  /\ reqs[2].pc = "replied"
  /\ last.op = "ctlDeliver"
  /\ currentSpeed = 2
  /\ currentPreservesPitch = FALSE
  /\ playbackRate[1] = 2
====
